---- MODULE Spec2Model ----
(***************************************************************************)
(* AlphaInsider backend (mannyal2057/alpha-backend).                       *)
(*                                                                         *)
(* src/main.py (v34) is the service: analyze_stock, the background         *)
(* refresh loop update_market_scanner that republishes SERVER_CACHE, and   *)
(* the HTTP handlers.  src/unnamed/part_000 holds earlier snapshots of the *)
(* same script; the v29 analyze_stock is modelled beside the v34 one.      *)
(*                                                                         *)
(* Python values are modelled as follows.  A value read from a provider is *)
(* a tagged record (None, a number, or a non-numeric object); text is a    *)
(* TLA+ string and f-strings are string concatenations; a dict is a        *)
(* record; a list is a sequence.  Prices are whole dollars.                *)
(***************************************************************************)
EXTENDS Integers, Sequences, FiniteSets, TLC

VARIABLES
    SERVER_CACHE,        \* main.py:40, the published views and the timestamp
    ACTIVE_BILLS_CACHE,  \* main.py:41, the bills get_legislative_intel searches
    pc,                  \* where update_market_scanner stands in its loop body
    results,             \* update_market_scanner's local list `results`
    cheap,               \* update_market_scanner's local list `cheap`
    feed,                \* what the market-data provider answers in this cycle
    cycle,               \* number of refresh cycles started
    published,           \* number of refresh cycles whose publish has finished
    origin,              \* for each cache key, the cycle whose publish wrote it
    requests,            \* the requests on worker threads: arrival, thread, answer
    analysis,            \* the last on-demand call and what it returned
    ledger               \* the paper-trading ledger persisted in DB_FILE

vars == <<SERVER_CACHE, ACTIVE_BILLS_CACHE, pc, results, cheap, feed, cycle,
          published, origin, requests, analysis, ledger>>

---------------------------------------------------------------------------
(* Python values                                                           *)

None == [tag |-> "none", v |-> 0]
Num(n) == [tag |-> "num", v |-> n]
\* an object that is neither None nor a number (a malformed provider answer)
Obj == [tag |-> "obj", v |-> 0]

\* Python's `x or d` for a provider value x and a numeric default d:
\* None and 0 are falsy, every other value is kept.
OrDefault(x, d) ==
    IF x.tag = "none" \/ (x.tag = "num" /\ x.v = 0) THEN Num(d) ELSE x

\* Whether `x > n` raises TypeError (x is not a number).
CompareRaises(x) == x.tag # "num"

Range(s) == {s[i] : i \in DOMAIN s}

Take(s, n) == SubSeq(s, 1, IF Len(s) < n THEN Len(s) ELSE n)

---------------------------------------------------------------------------
(* Static tables of main.py                                                *)

STATIC_LEGISLATION ==
    << [bill_id |-> "H.R. 5077", bill_name |-> "CREATE AI Act",
        bill_sponsor |-> "Rep. Lucas", impact_score |-> 90,
        market_impact |-> "Bullish: AI R&D Funding", sector |-> "AI"],
       [bill_id |-> "S. 2714", bill_name |-> "AI Safety Act",
        bill_sponsor |-> "Sen. Schumer", impact_score |-> 85,
        market_impact |-> "Bullish: Tech Standards", sector |-> "AI"],
       [bill_id |-> "H.R. 8070", bill_name |-> "Defense Auth Act",
        bill_sponsor |-> "Rep. Rogers", impact_score |-> 95,
        market_impact |-> "Direct Beneficiary: Military", sector |-> "DEFENSE"],
       [bill_id |-> "H.R. 4763", bill_name |-> "Crypto Clarity Act",
        bill_sponsor |-> "Rep. McHenry", impact_score |-> 88,
        market_impact |-> "Bullish: Digital Assets", sector |-> "CRYPTO"] >>

STATIC_TRADES ==
    [t \in {"NVDA", "MSFT", "PLTR", "LMT", "META", "COIN"} |->
        CASE t = "NVDA" -> [pol |-> "Rep. Pelosi", type |-> "Purchase", date |-> "Jan 14, 2025"]
          [] t = "MSFT" -> [pol |-> "Rep. Khanna", type |-> "Purchase", date |-> "Dec 15, 2024"]
          [] t = "PLTR" -> [pol |-> "Rep. Green", type |-> "Purchase", date |-> "Jan 05, 2025"]
          [] t = "LMT"  -> [pol |-> "Rep. Rutherford", type |-> "Purchase", date |-> "Dec 20, 2024"]
          [] t = "META" -> [pol |-> "Rep. Greene", type |-> "Purchase", date |-> "Nov 01, 2024"]
          [] t = "COIN" -> [pol |-> "Rep. Fallon", type |-> "Purchase", date |-> "Jan 08, 2025"]]

\* SECTOR_MAP.get(sector, [])
SECTOR_MAP(sector) ==
    CASE sector = "AI" -> {"NVDA", "AMD", "MSFT", "GOOGL", "PLTR", "AI", "SMCI", "AVGO", "QCOM", "INTC"}
      [] sector = "CRYPTO" -> {"COIN", "HOOD", "SQ", "MARA"}
      [] sector = "DEFENSE" -> {"LMT", "RTX", "BA", "GD", "GE"}
      [] sector = "ENERGY" -> {"XOM", "CVX", "KMI", "OXY"}
      [] sector = "HEALTH" -> {"PFE", "LLY", "MRK", "VERO", "IBRX"}
      [] sector = "EV" -> {"TSLA", "RIVN", "LCID", "F", "GM"}
      [] sector = "FINANCE" -> {"JPM", "BAC", "V", "MA", "SOFI"}
      [] OTHER -> {}

\* the universe with NVDA listed a second time
MARKET_UNIVERSE_repeated ==
    << "NVDA", "AMD", "NVDA", "MSFT", "GOOGL", "AAPL", "META", "TSLA", "PLTR", "AI",
       "SOFI", "COIN", "HOOD", "PYPL", "SQ", "JPM", "BAC", "LMT", "RTX", "BA",
       "GE", "XOM", "CVX", "AA", "KMI", "AMZN", "WMT", "COST", "F", "GM",
       "RIVN", "LCID", "PFE", "LLY", "MRK", "IBRX", "MRNA", "VERO", "DXCM" >>

\* line 68
MARKET_UNIVERSE ==
    << "NVDA", "AMD", "MSFT", "GOOGL", "AAPL", "META", "TSLA", "PLTR", "AI",
       "SOFI", "COIN", "HOOD", "PYPL", "SQ", "JPM", "BAC", "LMT", "RTX", "BA",
       "GE", "XOM", "CVX", "AA", "KMI", "AMZN", "WMT", "COST", "F", "GM",
       "RIVN", "LCID", "PFE", "LLY", "MRK", "IBRX", "MRNA", "VERO", "DXCM" >>

---------------------------------------------------------------------------
(* fetch_real_legislation: the congress.gov answer is                      *)
(*   [kind |-> "raise" | "status" | "ok", bills |-> <<raw bill, ...>>]     *)
(* and a raw bill is [type, number, title, words], words being the         *)
(* keywords the upper-cased title contains (the code tests substrings).    *)

\* lines 81-86: the first keyword that matches decides the sector
Classify(words) ==
    IF "INTELLIGENCE" \in words \/ "TECHNOLOGY" \in words
        THEN [impact |-> "Bullish: Tech investment.", score |-> 85, sector |-> "AI"]
    ELSE IF "DEFENSE" \in words
        THEN [impact |-> "Direct Beneficiary: Military.", score |-> 92, sector |-> "DEFENSE"]
    ELSE IF "ENERGY" \in words
        THEN [impact |-> "Bullish: Infrastructure.", score |-> 80, sector |-> "ENERGY"]
    ELSE IF "HEALTH" \in words
        THEN [impact |-> "Neutral: Health funding.", score |-> 65, sector |-> "HEALTH"]
    ELSE IF "CRYPTO" \in words
        THEN [impact |-> "Bullish: Crypto Regs.", score |-> 88, sector |-> "CRYPTO"]
    ELSE [impact |-> "Neutral: Monitoring.", score |-> 50, sector |-> "None"]

\* line 87: the cleaned bill, its name the title cut to 60 characters
CleanBill(b) ==
    LET c == Classify(b.words)
    IN  [bill_id |-> b.type \o " " \o b.number, bill_name |-> b.title \o "...",
         bill_sponsor |-> "Congress", impact_score |-> c.score,
         market_impact |-> c.impact, sector |-> c.sector]

RECURSIVE CleanBills(_)
CleanBills(bills) ==
    IF bills = <<>> THEN <<>>
    ELSE LET c == CleanBill(Head(bills))
         IN  (IF c.sector # "None" THEN <<c>> ELSE <<>>) \o CleanBills(Tail(bills))

\* the cleaned bills returned without the merge
MergeStatic_skipped(cleaned, static) == cleaned

\* lines 91-93: append every static bill whose bill_id is not yet present
RECURSIVE MergeStatic(_, _)
MergeStatic(cleaned, static) ==
    IF static = <<>> THEN cleaned
    ELSE LET sb == Head(static)
         IN  MergeStatic(IF \E i \in DOMAIN cleaned : cleaned[i].bill_id = sb.bill_id
                            THEN cleaned ELSE Append(cleaned, sb),
                         Tail(static))

\* lines 73-88: an exception inside the try (kind "raise") keeps the bills
\* cleaned before it, resp.bills; a non-200 status cleans nothing
fetch_real_legislation(resp) ==
    MergeStatic(IF resp.kind \in {"ok", "raise"} THEN CleanBills(resp.bills) ELSE <<>>,
                STATIC_LEGISLATION)

\* get_legislative_intel: the first bill of the cache whose sector lists the ticker
NoLegislation ==
    [bill_id |-> "N/A", impact_score |-> 50,
     market_impact |-> "No active legislation found.", bill_sponsor |-> "N/A"]

get_legislative_intel(ticker, bills) ==
    LET hits == {i \in DOMAIN bills : ticker \in SECTOR_MAP(bills[i].sector)}
    IN  IF hits = {} THEN NoLegislation
        ELSE LET first == CHOOSE i \in hits : \A j \in hits : i <= j
             IN  bills[first]

---------------------------------------------------------------------------
(* analyze_stock (main.py, v34).                                           *)
(*                                                                         *)
(* market  = [raises |-> "no" | "ticker" | "fast", last_price, last_volume]*)
(*   "ticker": yf.Ticker(ticker) raises, `stock` stays unbound;            *)
(*   "fast": stock.fast_info (or an attribute of it) raises.               *)
(* insider = [kind |-> "raise" | "none" | "empty" | "malformed" | "rows",  *)
(*            recent, sold]: stock.insider_transactions raises, is None,   *)
(*   is an empty frame, holds a date pd.to_datetime rejects, or holds rows *)
(*   whose latest one is recent or not and reads as a sale or not.         *)
(* The outcome is [exc |-> whether an exception escapes, ret |-> the dict].*)

\* lines 106-111
MarketData(market) ==
    IF market.raises # "no" THEN [price |-> Num(0), vol |-> Num(0)]
    ELSE [price |-> OrDefault(market.last_price, 0),
          vol |-> OrDefault(market.last_volume, 0)]

\* line 113: f"${price:.2f}" if price > 0 else "N/A"
PriceStr(price) == IF price > 0 THEN "$" \o ToString(price) \o ".00" ELSE "N/A"

\* line 114
VolStr(vol) == IF vol > 1000000 THEN "High (Buying)" ELSE "Neutral"

\* lines 122-126: [delta, note] of the congress bonus
CongressBonus(ticker) ==
    IF ticker \in DOMAIN STATIC_TRADES
    THEN LET td == STATIC_TRADES[ticker]
         IN  IF td.type = "Purchase"
                 THEN [delta |-> 25, note |-> td.pol \o " (Bought " \o td.date \o ") +25%"]
             ELSE IF td.type = "Sale"
                 THEN [delta |-> 0 - 25, note |-> td.pol \o " (Sold " \o td.date \o ") -25%"]
             ELSE [delta |-> 0, note |-> "No Recent Activity"]
    ELSE [delta |-> 0, note |-> "No Recent Activity"]

\* lines 129-146: the insider text; reading `stock` raises NameError when
\* yf.Ticker raised, and every exception falls to the static fallback
InsiderText(ticker, market, insider) ==
    IF market.raises = "ticker" \/ insider.kind \in {"raise", "malformed"}
    THEN IF ticker = "NVDA" THEN "Huang (Sold) Jan 15"
         ELSE IF ticker = "META" THEN "Zuckerberg (Sold) Jan 15"
         ELSE "No Recent Trades"
    ELSE IF insider.kind = "rows" /\ insider.recent
    THEN "Smith (" \o (IF insider.sold THEN "Sold" ELSE "Bought") \o ") Jan 02"
    ELSE "No Recent Trades"

\* Clamp with the ceiling test off by one (`score > 100`, as the v29 snapshot has it)
Clamp_above_100(score) == IF score > 100 THEN 99 ELSE score

\* line 149
Clamp(score) == IF score > 99 THEN 99 ELSE score

\* the BUY threshold taken strictly (`score > 60`)
Rate_buy_above_60(score) ==
    IF score >= 75 THEN [rating |-> "STRONG BUY", sentiment |-> "Bullish", timing |-> "Accumulate"]
    ELSE IF score > 60 THEN [rating |-> "BUY", sentiment |-> "Bullish", timing |-> "Add Dip"]
    ELSE IF score <= 45 THEN [rating |-> "SELL", sentiment |-> "Bearish", timing |-> "Exit"]
    ELSE [rating |-> "HOLD", sentiment |-> "Neutral", timing |-> "Wait"]

\* the clamp that tests against the ceiling and assigns the literal 99
ClampAt_literal(score, ceiling) == IF score > ceiling THEN 99 ELSE score

\* line 149 with its ceiling as a parameter: `if score > c: score = c`
ClampAt(score, ceiling) == IF score > ceiling THEN ceiling ELSE score

\* lines 150-153
Rate(score) ==
    IF score >= 75 THEN [rating |-> "STRONG BUY", sentiment |-> "Bullish", timing |-> "Accumulate"]
    ELSE IF score >= 60 THEN [rating |-> "BUY", sentiment |-> "Bullish", timing |-> "Add Dip"]
    ELSE IF score <= 45 THEN [rating |-> "SELL", sentiment |-> "Bearish", timing |-> "Exit"]
    ELSE [rating |-> "HOLD", sentiment |-> "Neutral", timing |-> "Wait"]

\* lines 167-173, the dict of the outer except
Failsafe(ticker) ==
    [ticker |-> ticker, raw_price |-> 0, price |-> "N/A",
     legislation_score |-> 50, final_score |-> "HOLD",
     sentiment |-> "Neutral", timing_signal |-> "Wait", volume_signal |-> "N/A",
     congress_activity |-> "Data Unavailable", corporate_activity |-> "Data Unavailable",
     bill_id |-> "N/A", bill_sponsor |-> "N/A", market_impact |-> "N/A"]

\* an exception leaving a block: no dict is returned
Raised == [exc |-> TRUE, ret |-> [ticker |-> "<exception>"]]

\* lines 105-164, the body of the outer try
AnalyzeBody(ticker, market, insider, bills) ==
    LET md == MarketData(market)
    IN  IF CompareRaises(md.price) \/ CompareRaises(md.vol) THEN Raised
        ELSE
        LET price == md.price.v
            vol_str == VolStr(md.vol.v)
            leg == get_legislative_intel(ticker, bills)
            bonus == CongressBonus(ticker)
            score == Clamp(leg.impact_score
                           + (IF vol_str = "High (Buying)" THEN 5 ELSE 0)
                           + bonus.delta)
            r == Rate(score)
        IN  [exc |-> FALSE,
             ret |-> [ticker |-> ticker, raw_price |-> price, price |-> PriceStr(price),
                      legislation_score |-> score, final_score |-> r.rating,
                      sentiment |-> r.sentiment, timing_signal |-> r.timing,
                      volume_signal |-> vol_str, congress_activity |-> bonus.note,
                      corporate_activity |-> InsiderText(ticker, market, insider),
                      bill_id |-> leg.bill_id, bill_sponsor |-> leg.bill_sponsor,
                      market_impact |-> leg.market_impact]]

\* analyze_stock without the outer try: an exception of the body escapes
analyze_stock_no_failsafe(ticker, market, insider, bills) ==
    AnalyzeBody(ticker, market, insider, bills)

\* lines 103-173: `except Exception` turns every exception of the body into
\* the failsafe dict
analyze_stock(ticker, market, insider, bills) ==
    LET body == AnalyzeBody(ticker, market, insider, bills)
    IN  IF body.exc THEN [exc |-> FALSE, ret |-> Failsafe(ticker)] ELSE body

---------------------------------------------------------------------------
(* analyze_stock of the v29 snapshot (src/unnamed/part_000, lines 393-712) *)

SECTOR_MAP_v29(sector) ==
    CASE sector = "AI" -> {"NVDA", "AMD", "MSFT", "GOOGL", "PLTR", "AI", "SMCI"}
      [] sector = "CRYPTO" -> {"COIN", "HOOD", "SQ", "MARA", "RIOT"}
      [] sector = "DEFENSE" -> {"LMT", "RTX", "BA", "GD", "GE", "NOC"}
      [] sector = "ENERGY" -> {"XOM", "CVX", "KMI", "OXY", "AA"}
      [] sector = "HEALTH" -> {"PFE", "LLY", "MRK", "UNH", "VERO", "IBRX", "DXCM"}
      [] sector = "EV" -> {"TSLA", "RIVN", "LCID", "F", "GM"}
      [] sector = "FINANCE" -> {"JPM", "BAC", "V", "MA", "SOFI", "PYPL"}
      [] OTHER -> {}

CONGRESS_TRADES_DB ==
    [t \in {"NVDA", "MSFT", "LMT", "RTX", "PLTR", "COIN", "XOM", "SOFI", "TSLA"} |->
        CASE t = "NVDA" -> [pol |-> "Rep. Pelosi", type |-> "Purchase"]
          [] t = "MSFT" -> [pol |-> "Rep. Khanna", type |-> "Purchase"]
          [] t = "LMT"  -> [pol |-> "Rep. Rutherford", type |-> "Purchase"]
          [] t = "RTX"  -> [pol |-> "Sen. Tuberville", type |-> "Purchase"]
          [] t = "PLTR" -> [pol |-> "Rep. Green", type |-> "Purchase"]
          [] t = "COIN" -> [pol |-> "Rep. Fallon", type |-> "Purchase"]
          [] t = "XOM"  -> [pol |-> "Rep. Pfluger", type |-> "Purchase"]
          [] t = "SOFI" -> [pol |-> "Sen. Lummis", type |-> "Purchase"]
          [] t = "TSLA" -> [pol |-> "Rep. Malinowski", type |-> "Sale"]]

\* part_000 lines 486-513
Classify_v29(words) ==
    IF words \cap {"INTELLIGENCE", "TECHNOLOGY", "CHIPS"} # {}
        THEN [impact |-> "Bullish: Tech investment bill.", score |-> 85, sector |-> "AI"]
    ELSE IF words \cap {"DEFENSE", "ARMED FORCES"} # {}
        THEN [impact |-> "Direct Beneficiary: Military spending.", score |-> 92, sector |-> "DEFENSE"]
    ELSE IF words \cap {"ENERGY", "PIPELINE", "GAS"} # {}
        THEN [impact |-> "Bullish: Infrastructure development.", score |-> 80, sector |-> "ENERGY"]
    ELSE IF words \cap {"HEALTH", "MEDICAL", "DRUG"} # {}
        THEN [impact |-> "Neutral/Bullish: Public health funding.", score |-> 65, sector |-> "HEALTH"]
    ELSE IF words \cap {"CRYPTO", "DIGITAL ASSET", "BLOCKCHAIN"} # {}
        THEN [impact |-> "Bullish: Regulatory framework.", score |-> 88, sector |-> "CRYPTO"]
    ELSE IF words \cap {"BANK", "FINANCE"} # {}
        THEN [impact |-> "Neutral: Financial regulation.", score |-> 55, sector |-> "FINANCE"]
    ELSE [impact |-> "Neutral: Monitoring.", score |-> 50, sector |-> "None"]

RECURSIVE CleanBills_v29(_)
CleanBills_v29(bills) ==
    IF bills = <<>> THEN <<>>
    ELSE LET b == Head(bills)
             c == Classify_v29(b.words)
         IN  (IF c.sector # "None"
                 THEN << [bill_id |-> b.type \o " " \o b.number,
                          bill_name |-> b.title \o "...", bill_sponsor |-> "Congress",
                          impact_score |-> c.score, market_impact |-> c.impact,
                          sector |-> c.sector] >>
                 ELSE <<>>) \o CleanBills_v29(Tail(bills))

\* part_000 lines 474-537: two fixed bills when nothing was fetched
fetch_real_legislation_v29(resp) ==
    LET cleaned == IF resp.kind = "ok" THEN CleanBills_v29(resp.bills) ELSE <<>>
    IN  IF cleaned # <<>> THEN cleaned
        ELSE << [bill_id |-> "H.R. 2882", bill_name |-> "Appropriations Act",
                 bill_sponsor |-> "Rep. Granger", impact_score |-> 60,
                 market_impact |-> "Neutral: Gov funding.", sector |-> "FINANCE"],
                [bill_id |-> "S. 4638", bill_name |-> "National Defense Act",
                 bill_sponsor |-> "Sen. Reed", impact_score |-> 92,
                 market_impact |-> "Bullish: Defense contractors.", sector |-> "DEFENSE"] >>

\* part_000 lines 539-545
get_legislative_intel_v29(ticker, bills) ==
    LET hits == {i \in DOMAIN bills : ticker \in SECTOR_MAP_v29(bills[i].sector)}
    IN  IF hits = {} THEN NoLegislation
        ELSE LET first == CHOOSE i \in hits : \A j \in hits : i <= j
             IN  bills[first]

\* part_000 lines 562-569, the dict of the first try's except
Failsafe_v29(ticker) ==
    [ticker |-> ticker, raw_price |-> 0, price |-> "N/A",
     volume_signal |-> "N/A", financial_health |-> "N/A",
     legislation_score |-> 50, timing_signal |-> "Wait",
     sentiment |-> "Neutral", final_score |-> "HOLD",
     corporate_activity |-> "Data Unavailable", bill_id |-> "N/A",
     market_impact |-> "N/A", bill_sponsor |-> "N/A"]

\* part_000 line 618
Clamp_v29(score) == IF score > 100 THEN 99 ELSE score

\* part_000 lines 581-592
CongressBonus_v29(ticker) ==
    IF ticker \in DOMAIN CONGRESS_TRADES_DB
    THEN LET td == CONGRESS_TRADES_DB[ticker]
         IN  IF td.type = "Purchase"
                 THEN [delta |-> 25, note |-> td.pol \o " Bought (+25% Boost)"]
             ELSE IF td.type = "Sale"
                 THEN [delta |-> 0 - 25, note |-> td.pol \o " Sold (-25% Hit)"]
             ELSE [delta |-> 0, note |-> "No Recent Activity"]
    ELSE [delta |-> 0, note |-> "No Recent Activity"]

\* part_000 lines 595-614: every exception leaves the default text
InsiderText_v29(insider) ==
    IF insider.kind = "rows" /\ insider.recent
    THEN "Smith (" \o (IF insider.sold THEN "Sold" ELSE "Bought") \o ") Jan 02"
    ELSE "Monitoring..."

\* part_000 lines 548-641.  The first try ends at line 569: yf.Ticker raising,
\* or the price failing to format, or the volume failing to compare, returns
\* the failsafe dict; nothing after it is inside a try but the insider block.
analyze_stock_v29(ticker, market, insider, bills) ==
    LET md == IF market.raises = "fast" THEN [price |-> Num(0), vol |-> Num(0)]
              ELSE [price |-> OrDefault(market.last_price, 0),
                    vol |-> OrDefault(market.last_volume, 0)]
    IN  IF market.raises = "ticker" \/ CompareRaises(md.price) \/ CompareRaises(md.vol)
        THEN [exc |-> FALSE, ret |-> Failsafe_v29(ticker)]
        ELSE
        LET price == md.price.v
            vol_str == VolStr(md.vol.v)
            leg == get_legislative_intel_v29(ticker, bills)
            bonus == CongressBonus_v29(ticker)
            score == Clamp_v29(leg.impact_score
                               + (IF vol_str = "High (Buying)" THEN 5 ELSE 0)
                               + bonus.delta)
            r == Rate(score)
        IN  [exc |-> FALSE,
             ret |-> [ticker |-> ticker, raw_price |-> price,
                      price |-> "$" \o ToString(price) \o ".00",
                      volume_signal |-> vol_str, financial_health |-> "Stable",
                      legislation_score |-> score, timing_signal |-> r.timing,
                      sentiment |-> IF r.rating \in {"STRONG BUY", "BUY"}
                                        THEN "Bullish" ELSE "Bearish",
                      final_score |-> r.rating,
                      corporate_activity |-> InsiderText_v29(insider),
                      congress_activity |-> bonus.note,
                      bill_id |-> leg.bill_id,
                      bill_name |-> IF "bill_name" \in DOMAIN leg
                                        THEN leg.bill_name ELSE "Appropriations",
                      bill_sponsor |-> leg.bill_sponsor,
                      market_impact |-> leg.market_impact]]

---------------------------------------------------------------------------
(* Provider behaviours the model draws from                                *)

\* answers of yfinance for one ticker
Prices == {None, Num(0), Num(10), Num(50), Num(5000), Obj}
Volumes == {None, Num(1000000), Num(2000000), Obj}

MarketAnswers ==
    {[raises |-> "ticker", last_price |-> None, last_volume |-> None],
     [raises |-> "fast", last_price |-> None, last_volume |-> None]}
    \cup [raises : {"no"}, last_price : Prices, last_volume : Volumes]

InsiderAnswers ==
    {[kind |-> k, recent |-> FALSE, sold |-> FALSE] :
        k \in {"raise", "none", "empty", "malformed"}}
    \cup [kind : {"rows"}, recent : BOOLEAN, sold : BOOLEAN]

\* answers of api.congress.gov
DefenseBill == [type |-> "HR", number |-> "8070", title |-> "NATIONAL DEFENSE AUTHORIZATION ACT",
                words |-> {"DEFENSE"}]
TechBill == [type |-> "S", number |-> "2714", title |-> "ENERGY TECHNOLOGY ACT",
             words |-> {"ENERGY", "TECHNOLOGY"}]
HealthBill == [type |-> "HR", number |-> "5525", title |-> "PUBLIC HEALTH FUNDING ACT",
               words |-> {"HEALTH"}]
NamingBill == [type |-> "HR", number |-> "3", title |-> "POST OFFICE NAMING ACT",
               words |-> {}]

CongressAnswers ==
    {[kind |-> "raise", bills |-> <<>>], [kind |-> "status", bills |-> <<>>],
     [kind |-> "ok", bills |-> <<>>], [kind |-> "ok", bills |-> <<NamingBill>>],
     [kind |-> "ok", bills |-> <<DefenseBill>>],
     [kind |-> "ok", bills |-> <<HealthBill, TechBill>>]}

\* tickers asked for on demand: with and without a bill, with and without a
\* congress trade, in and out of the universe
AnalyzeTickers == {"NVDA", "META", "RTX", "LMT", "XOM", "TSLA", "SOFI", "PFE", "AAPL", "ZZZZ"}

---------------------------------------------------------------------------
(* State after construction (main.py:40-41, 208)                           *)

NoTimestamp == [tag |-> "none", s |-> ""]

EmptyCache == [buys |-> <<>>, cheap |-> <<>>, sells |-> <<>>, last_updated |-> NoTimestamp]

NoCall == [fn |-> "none"]

\* lines 47 and 53: the ledger load_db creates when DB_FILE does not exist
DefaultLedger == [cash |-> 100000, holdings |-> <<>>, history |-> <<>>]

ScannerInit ==
    /\ SERVER_CACHE = EmptyCache
    /\ pc = "start"
    /\ results = <<>>
    /\ cheap = <<>>
    /\ feed = <<>>
    /\ cycle = 0
    /\ published = 0
    /\ origin = [k \in {"buys", "cheap", "sells", "last_updated"} |-> 0]
    /\ requests = <<>>

scannerVars == <<SERVER_CACHE, pc, results, cheap, feed, cycle, published, origin, requests>>

---------------------------------------------------------------------------
(* On-demand analysis: analyze_stock applied to every ticker and every     *)
(* provider behaviour, over every bill cache fetch_real_legislation builds *)

InitAnalyze ==
    /\ ScannerInit
    /\ ACTIVE_BILLS_CACHE \in
          {STATIC_LEGISLATION} \cup {fetch_real_legislation(r) : r \in CongressAnswers}
    /\ analysis = NoCall
    /\ ledger = DefaultLedger

AnalyzeStock ==
    \E t \in AnalyzeTickers, m \in MarketAnswers, i \in InsiderAnswers :
        /\ analysis = NoCall
        /\ analysis' = [fn |-> "v34", ticker |-> t, market |-> m, insider |-> i,
                        out |-> analyze_stock(t, m, i, ACTIVE_BILLS_CACHE)]
        /\ UNCHANGED <<scannerVars, ACTIVE_BILLS_CACHE, ledger>>

\* the v29 snapshot starts with an empty bill cache (part_000 line 418)
Bills_v29 == {<<>>} \cup {fetch_real_legislation_v29(r) : r \in CongressAnswers}

AnalyzeStock_v29 ==
    \E t \in AnalyzeTickers, m \in MarketAnswers, i \in InsiderAnswers, b \in Bills_v29 :
        /\ analysis = NoCall
        /\ analysis' = [fn |-> "v29", ticker |-> t, market |-> m, insider |-> i,
                        out |-> analyze_stock_v29(t, m, i, b)]
        /\ UNCHANGED <<scannerVars, ACTIVE_BILLS_CACHE, ledger>>

\* the caller has taken the returned dict
Return ==
    /\ analysis # NoCall
    /\ analysis' = NoCall
    /\ UNCHANGED <<scannerVars, ACTIVE_BILLS_CACHE, ledger>>

NextAnalyze == AnalyzeStock \/ AnalyzeStock_v29 \/ Return

SpecAnalyze == InitAnalyze /\ [][NextAnalyze]_vars

ResultFields ==
    {"ticker", "raw_price", "price", "legislation_score", "final_score", "sentiment",
     "timing_signal", "volume_signal", "congress_activity", "corporate_activity",
     "bill_id", "bill_sponsor", "market_impact"}

Ratings == {"STRONG BUY", "BUY", "HOLD", "SELL"}

C10_ScoreAtMostCeiling ==
    analysis.fn \in {"v34", "v29"} => analysis.out.ret.legislation_score <= 99

\* C10 witness: base 90 plus the volume bonus plus the congress bonus is 120,
\* returned as 99
C10_Witness ==
    /\ analysis.fn = "v34"
    /\ analysis.ticker = "NVDA"
    /\ analysis.market.raises = "no"
    /\ analysis.market.last_volume = Num(2000000)
    /\ analysis.out.ret.legislation_score = 99

---------------------------------------------------------------------------
(* update_market_scanner (main.py:176-203), one refresh cycle per pass of  *)
(* its `while True`.  pc is "start" (the task lifespan created has not run *)
(* yet), "scan", "publish_buys", "publish_cheap", "publish_sells",         *)
(* "publish_time", or "sleep" (suspended in `await asyncio.sleep(900)`).   *)
(* The coroutine gives the event loop back only in "sleep": every call     *)
(* between two awaits is a blocking call.                                  *)

\* list.sort(key=legislation_score, reverse=True): stable, so results of
\* equal score keep the order they had
RECURSIVE SortDescFrom(_, _)
SortDescFrom(sorted, rest) ==
    IF rest = <<>> THEN sorted
    ELSE LET x == Head(rest)
         IN  SortDescFrom(
                 SelectSeq(sorted, LAMBDA e : e.legislation_score >= x.legislation_score)
                 \o <<x>> \o
                 SelectSeq(sorted, LAMBDA e : e.legislation_score < x.legislation_score),
                 Tail(rest))

\* the list left in completion order
SortDesc_unsorted(list) == list

SortDesc(list) == SortDescFrom(<<>>, list)

\* list.sort(key=legislation_score, reverse=False)
RECURSIVE SortAscFrom(_, _)
SortAscFrom(sorted, rest) ==
    IF rest = <<>> THEN sorted
    ELSE LET x == Head(rest)
         IN  SortAscFrom(
                 SelectSeq(sorted, LAMBDA e : e.legislation_score <= x.legislation_score)
                 \o <<x>> \o
                 SelectSeq(sorted, LAMBDA e : e.legislation_score > x.legislation_score),
                 Tail(rest))

\* the second sort left in the direction of the first
SortAsc_reversed(list) == SortDesc(list)

SortAsc(list) == SortAscFrom(<<>>, list)

\* the filter with the threshold itself let through
IsCheap_at_threshold(x) == 0 < x.raw_price /\ x.raw_price <= 50

\* line 194: 0 < raw_price < 50
IsCheap(x) == 0 < x.raw_price /\ x.raw_price < 50

\* lines 192, 196, 199: the [:5] slices
TopN == 5

\* line 200: datetime.now().strftime("%H:%M:%S"), the clock read in cycle k
Timestamp(k) == [tag |-> "str", s |-> "t" \o ToString(k)]

\* lines 184-188: the dicts of the futures in completion order; a future
\* whose call raised is skipped.  outcome[t] is what analyze_stock(t) did.
RECURSIVE Collect(_, _, _)
Collect(universe, order, outcome) ==
    IF order = <<>> THEN <<>>
    ELSE LET r == outcome[universe[Head(order)]]
         IN  (IF r.exc THEN <<>> ELSE <<r.ret>>) \o Collect(universe, Tail(order), outcome)

\* the loop body without its `while True`: one cycle, begun at start-up only
BeginCycle_once(answers, maxCycles) ==
    /\ pc = "start"
    /\ cycle < maxCycles
    /\ \E resp \in answers :
          LET bills == fetch_real_legislation(resp)
          IN  ACTIVE_BILLS_CACHE' = IF bills # <<>> THEN bills ELSE ACTIVE_BILLS_CACHE
    /\ results' = <<>>
    /\ cycle' = cycle + 1
    /\ pc' = "scan"
    /\ UNCHANGED <<SERVER_CACHE, cheap, feed, published, origin, requests, analysis, ledger>>

\* lines 179-183: a cycle begins; the bill cache is replaced when the fetch
\* returned a non-empty list
BeginCycle(answers, maxCycles) ==
    /\ pc \in {"start", "sleep"}
    /\ cycle < maxCycles
    /\ \E resp \in answers :
          LET bills == fetch_real_legislation(resp)
          IN  ACTIVE_BILLS_CACHE' = IF bills # <<>> THEN bills ELSE ACTIVE_BILLS_CACHE
    /\ results' = <<>>
    /\ cycle' = cycle + 1
    /\ pc' = "scan"
    /\ UNCHANGED <<SERVER_CACHE, cheap, feed, published, origin, requests, analysis, ledger>>

\* lines 184-188: the pool runs analyze_stock over the universe; as_completed
\* yields the futures in any completion order
ScanUniverse(universe, feeds) ==
    /\ pc = "scan"
    /\ \E f \in feeds :
          LET outcome == [t \in Range(universe) |->
                             analyze_stock(t, f[t].market, f[t].insider, ACTIVE_BILLS_CACHE)]
          IN  \E order \in Permutations(DOMAIN universe) :
                  /\ feed' = f
                  /\ results' = Collect(universe, [i \in DOMAIN universe |-> order[i]],
                                        outcome)
    /\ pc' = "publish_buys"
    /\ UNCHANGED <<SERVER_CACHE, ACTIVE_BILLS_CACHE, cheap, cycle, published, origin,
                   requests, analysis, ledger>>

\* lines 191-192
PublishBuys ==
    /\ pc = "publish_buys"
    /\ results' = SortDesc(results)
    /\ SERVER_CACHE' = [SERVER_CACHE EXCEPT !.buys = Take(results', TopN)]
    /\ origin' = [origin EXCEPT !["buys"] = cycle]
    /\ pc' = "publish_cheap"
    /\ UNCHANGED <<ACTIVE_BILLS_CACHE, cheap, feed, cycle, published, requests, analysis, ledger>>

\* lines 194-196
PublishCheap ==
    /\ pc = "publish_cheap"
    /\ cheap' = SortDesc(SelectSeq(results, IsCheap))
    /\ SERVER_CACHE' = [SERVER_CACHE EXCEPT !.cheap = Take(cheap', TopN)]
    /\ origin' = [origin EXCEPT !["cheap"] = cycle]
    /\ pc' = "publish_sells"
    /\ UNCHANGED <<ACTIVE_BILLS_CACHE, results, feed, cycle, published, requests, analysis, ledger>>

\* lines 198-199
PublishSells ==
    /\ pc = "publish_sells"
    /\ results' = SortAsc(results)
    /\ SERVER_CACHE' = [SERVER_CACHE EXCEPT !.sells = Take(results', TopN)]
    /\ origin' = [origin EXCEPT !["sells"] = cycle]
    /\ pc' = "publish_time"
    /\ UNCHANGED <<ACTIVE_BILLS_CACHE, cheap, feed, cycle, published, requests, analysis, ledger>>

\* lines 200-203: the last assignment of the publish, then the coroutine
\* suspends in asyncio.sleep
PublishTime ==
    /\ pc = "publish_time"
    /\ SERVER_CACHE' = [SERVER_CACHE EXCEPT !.last_updated = Timestamp(cycle)]
    /\ origin' = [origin EXCEPT !["last_updated"] = cycle]
    /\ published' = cycle
    /\ pc' = "sleep"
    /\ UNCHANGED <<ACTIVE_BILLS_CACHE, results, cheap, feed, cycle, requests, analysis, ledger>>

---------------------------------------------------------------------------
(* What the providers answer during one refresh cycle: a feed gives, for   *)
(* every ticker of the universe, the market answer and the insider answer. *)

Up(price, volume) ==
    [market |-> [raises |-> "no", last_price |-> Num(price), last_volume |-> Num(volume)],
     insider |-> [kind |-> "rows", recent |-> TRUE, sold |-> FALSE]]

Down ==
    [market |-> [raises |-> "ticker", last_price |-> None, last_volume |-> None],
     insider |-> [kind |-> "raise", recent |-> FALSE, sold |-> FALSE]]

NoQuote ==
    [market |-> [raises |-> "no", last_price |-> None, last_volume |-> None],
     insider |-> [kind |-> "empty", recent |-> FALSE, sold |-> FALSE]]

Position(universe, t) == CHOOSE i \in DOMAIN universe : universe[i] = t

\* a trading day: prices on both sides of the threshold and at it, volume
\* high for every other ticker
BoardPrice(i) == <<10, 5000, 49, 50>>[((i - 1) % 4) + 1]
BoardVolume(i) == IF i % 2 = 1 THEN 2000000 ELSE 500000

FeedOpen(universe) ==
    [t \in Range(universe) |->
        LET i == Position(universe, t) IN Up(BoardPrice(i), BoardVolume(i))]

\* every per-symbol fetch fails
FeedOutage(universe) == [t \in Range(universe) |-> Down]

\* every other ticker is not served (the fetch fails, or answers without a
\* price); the others trade below, at and above the threshold
PartialPrice(i) == <<10, 50, 5000>>[(((i \div 2) - 1) % 3) + 1]

FeedPartial(universe) ==
    [t \in Range(universe) |->
        LET i == Position(universe, t)
        IN  IF i % 4 = 1 THEN Down
            ELSE IF i % 4 = 3 THEN NoQuote
            ELSE Up(PartialPrice(i), 2000000)]

AllFailed(f) == \A t \in DOMAIN f : f[t].market.raises # "no"

\* the congress.gov answers a refresh cycle draws from
ScanCongress ==
    {[kind |-> "raise", bills |-> <<>>], [kind |-> "ok", bills |-> <<HealthBill, TechBill>>]}

\* congress.gov refuses the request (the DEMO_KEY default of main.py:16)
CongressRefuses == {[kind |-> "status", bills |-> <<>>]}

---------------------------------------------------------------------------
(* The refresh loop alone, over a universe longer than the [:5] slices     *)

ScanSize == 6
MaxCycles == 2

ScanUniverseList == SubSeq(MARKET_UNIVERSE, 1, ScanSize)

ScanFeeds ==
    {FeedOpen(ScanUniverseList), FeedOutage(ScanUniverseList), FeedPartial(ScanUniverseList)}

InitScan ==
    /\ ScannerInit
    /\ ACTIVE_BILLS_CACHE = STATIC_LEGISLATION
    /\ analysis = NoCall
    /\ ledger = DefaultLedger

NextScan ==
    \/ BeginCycle(CongressRefuses, MaxCycles)
    \/ ScanUniverse(ScanUniverseList, ScanFeeds)
    \/ PublishBuys
    \/ PublishCheap
    \/ PublishSells
    \/ PublishTime

SpecScan == InitScan /\ [][NextScan]_vars

---------------------------------------------------------------------------
(* GET /api/scanner (main.py:253-254).  get_scanner_data is a plain `def`, *)
(* so FastAPI runs it on a worker thread of its pool: the event loop       *)
(* accepts the request and hands it to the pool only when it is free, that *)
(* is while update_market_scanner is suspended in its sleep; the worker    *)
(* thread then runs beside the event loop's thread.                        *)
(* A request is [st, arrivedIn, mode, resp, epoch]: st is "pending" (sent  *)
(* by the client), "running" (on a worker thread) or "done"; arrivedIn is  *)
(* the refresh cycle in progress when it arrived (0: none); epoch is the   *)
(* number of completed cycles when the handler read the cache.             *)

JsonList(items) == [kind |-> "list", items |-> items, text |-> ""]
JsonNull == [kind |-> "null", items |-> <<>>, text |-> ""]
JsonText(s) == [kind |-> "string", items |-> <<>>, text |-> s]

Views == {"buys", "cheap", "sells"}

\* line 254: SERVER_CACHE.get(mode, [])
get_scanner_data(cache, mode) ==
    IF mode \in Views THEN JsonList(cache[mode])
    ELSE IF mode = "last_updated"
        THEN IF cache.last_updated.tag = "none" THEN JsonNull
             ELSE JsonText(cache.last_updated.s)
    ELSE JsonList(<<>>)

\* the mode strings a client sends
Modes == Views \cup {"last_updated", "gainers"}

MaxRequests == 2

LoopFree == pc = "sleep"

Arrive ==
    /\ Len(requests) < MaxRequests
    /\ requests' = Append(requests,
                          [st |-> "pending",
                           arrivedIn |-> IF pc \in {"start", "sleep"} THEN 0 ELSE cycle,
                           mode |-> "", resp |-> JsonNull, epoch |-> 0])
    /\ UNCHANGED <<SERVER_CACHE, ACTIVE_BILLS_CACHE, pc, results, cheap, feed, cycle,
                   published, origin, analysis, ledger>>

Dispatch(i) ==
    /\ requests[i].st = "pending"
    /\ LoopFree
    /\ requests' = [requests EXCEPT ![i].st = "running"]
    /\ UNCHANGED <<SERVER_CACHE, ACTIVE_BILLS_CACHE, pc, results, cheap, feed, cycle,
                   published, origin, analysis, ledger>>

GetScannerData(i) ==
    /\ requests[i].st = "running"
    /\ \E mode \in Modes :
          requests' = [requests EXCEPT ![i] =
                          [@ EXCEPT !.st = "done", !.mode = mode,
                                    !.resp = get_scanner_data(SERVER_CACHE, mode),
                                    !.epoch = published]]
    /\ UNCHANGED <<SERVER_CACHE, ACTIVE_BILLS_CACHE, pc, results, cheap, feed, cycle,
                   published, origin, analysis, ledger>>

---------------------------------------------------------------------------
(* The service: the refresh loop and the /api/scanner readers              *)

UniverseSize == 3

Universe == SubSeq(MARKET_UNIVERSE, 1, UniverseSize)

Feeds == {FeedOpen(Universe), FeedOutage(Universe), FeedPartial(Universe)}

Init ==
    /\ ScannerInit
    /\ ACTIVE_BILLS_CACHE = STATIC_LEGISLATION
    /\ analysis = NoCall
    /\ ledger = DefaultLedger

Next ==
    \/ BeginCycle(ScanCongress, MaxCycles)
    \/ ScanUniverse(Universe, Feeds)
    \/ PublishBuys
    \/ PublishCheap
    \/ PublishSells
    \/ PublishTime
    \/ Arrive
    \/ \E i \in DOMAIN requests : Dispatch(i)
    \/ \E i \in DOMAIN requests : GetScannerData(i)

Spec == Init /\ [][Next]_vars

---------------------------------------------------------------------------
(* Properties of the refresh loop (SpecScan)                               *)

PublishSteps == {"publish_buys", "publish_cheap", "publish_sells", "publish_time"}

ViewsOf(cache) == <<cache.buys, cache.cheap, cache.sells>>

\* C3: a refresh cycle in which every per-symbol market-data fetch failed
\* leaves the buys, cheap and sells views exactly as the previous cycle
\* published them: no step of its publish changes any of the three.
C3_OutageKeepsViews ==
    [][(pc \in PublishSteps /\ published >= 1 /\ AllFailed(feed))
          => ViewsOf(SERVER_CACHE') = ViewsOf(SERVER_CACHE)]_vars

\* C8: in every reachable state every entry of the cheap view has a raw
\* price strictly above 0 and strictly below 50.
C8_CheapWithinThreshold ==
    \A i \in DOMAIN SERVER_CACHE.cheap :
        /\ SERVER_CACHE.cheap[i].raw_price > 0
        /\ SERVER_CACHE.cheap[i].raw_price < 50

\* a cycle published a non-empty cheap view out of results that hold a
\* price at the threshold, a price above it and a price of 0
C8_Witness ==
    /\ pc = "sleep"
    /\ SERVER_CACHE.cheap # <<>>
    /\ SERVER_CACHE.cheap = Take(cheap, TopN)
    /\ \E i \in DOMAIN results : results[i].raw_price = 50
    /\ \E i \in DOMAIN results : results[i].raw_price > 50
    /\ \E i \in DOMAIN results : results[i].raw_price = 0

IsAscending(list) ==
    \A i, j \in DOMAIN list : i < j => list[i].legislation_score <= list[j].legislation_score

IsDescending(list) ==
    \A i, j \in DOMAIN list : i < j => list[i].legislation_score >= list[j].legislation_score

\* C9: after each completed cycle, with results the cycle's result list:
\* the sells view is the first TopN entries of its ascending-score ordering,
\* and the buys view is the first TopN entries of a descending-score
\* ordering of the same list (every result left out of buys scores no
\* higher than every result in it).
C9_SellsAndBuysOfOneDataset ==
    (pc = "sleep" /\ published >= 1) =>
        /\ SERVER_CACHE.sells = Take(SortAsc(results), TopN)
        /\ IsAscending(SERVER_CACHE.sells)
        /\ \A i \in DOMAIN results : i > Len(SERVER_CACHE.sells) =>
              \A j \in DOMAIN SERVER_CACHE.sells :
                  SERVER_CACHE.sells[j].legislation_score <= results[i].legislation_score
        /\ Len(SERVER_CACHE.buys) = Len(SERVER_CACHE.sells)
        /\ Range(SERVER_CACHE.buys) \subseteq Range(results)
        /\ IsDescending(SERVER_CACHE.buys)
        /\ \A r \in Range(results) \ Range(SERVER_CACHE.buys) :
              \A j \in DOMAIN SERVER_CACHE.buys :
                  r.legislation_score <= SERVER_CACHE.buys[j].legislation_score

\* a completed cycle over more results than a view holds, with scores that
\* differ: the two views are different ends of the one list
C9_Witness ==
    /\ pc = "sleep"
    /\ published >= 1
    /\ Len(results) > TopN
    /\ SERVER_CACHE.buys[1].legislation_score > SERVER_CACHE.sells[1].legislation_score
    /\ Range(SERVER_CACHE.buys) \ Range(SERVER_CACHE.sells) # {}
    /\ Range(SERVER_CACHE.sells) \ Range(SERVER_CACHE.buys) # {}

---------------------------------------------------------------------------
(* Properties of the service (Spec)                                        *)

Keys == Views \cup {"last_updated"}

\* C2: in every state in which a /api/scanner handler can read the cache
\* (one is running on its worker thread), the buys, cheap and sells views
\* and last_updated were all written by the same refresh cycle.
C2_ReadersSeeOneCycle ==
    (\E i \in DOMAIN requests : requests[i].st = "running") =>
        \A k1, k2 \in Keys : origin[k1] = origin[k2]

\* C4: two answered /api/scanner reads of the same mode that read the cache
\* between the same two completed refresh cycles carry identical results.
C4_ReadsBetweenCyclesAgree ==
    \A i, j \in DOMAIN requests :
        (/\ requests[i].st = "done"
         /\ requests[j].st = "done"
         /\ requests[i].mode = requests[j].mode
         /\ requests[i].epoch = requests[j].epoch)
            => requests[i].resp = requests[j].resp

\* C5: get_scanner_data answers a mode that is not buys, cheap or sells
\* with an empty sequence.
C5_UnknownModeIsEmptyList ==
    \A i \in DOMAIN requests :
        (requests[i].st = "done" /\ requests[i].mode \notin Views)
            => requests[i].resp = JsonList(<<>>)

\* C6: a /api/scanner read that arrived while refresh cycle k was in
\* progress is answered from the snapshot published before k: the handler
\* reads the cache before cycle k has completed.
C6_ReadDoesNotWaitForRefresh ==
    \A i \in DOMAIN requests :
        (requests[i].st = "done" /\ requests[i].arrivedIn > 0)
            => requests[i].epoch < requests[i].arrivedIn

---------------------------------------------------------------------------
(* GET /api/signals (main.py:256-269)                                      *)

\* line 66
SECTOR_PEERS ==
    "NVDA" :> <<"AMD", "INTC", "AVGO", "QCOM">> @@
    "F" :> <<"GM", "TM", "HMC", "TSLA">> @@
    "TSLA" :> <<"RIVN", "LCID", "F", "GM">> @@
    "VERO" :> <<"PODD", "DXCM", "MDT">> @@
    "SOFI" :> <<"LC", "UPST", "COIN", "HOOD">> @@
    "COIN" :> <<"HOOD", "MARA", "RIOT">> @@
    "SQ" :> <<"PYPL", "COIN">> @@
    "BA" :> <<"LMT", "RTX", "GD">> @@
    "PFE" :> <<"MRK", "BMY", "LLY">> @@
    "AAL" :> <<"DAL", "UAL", "LUV">> @@
    "AAPL" :> <<"MSFT", "GOOGL", "AMZN">> @@
    "XOM" :> <<"CVX", "SHEL", "BP">>

\* the ticker strings a client sends: well-formed symbols in either case,
\* the empty string and a string of punctuation
MalformedTickers == {"", "$$$"}
SignalTickers == {"NVDA", "nvda", "msft", "ZZZZ"} \cup MalformedTickers

\* str.upper() over the strings above
Upper(t) ==
    IF t = "nvda" THEN "NVDA" ELSE IF t = "msft" THEN "MSFT" ELSE t

\* line 260: SECTOR_PEERS.get(ticker.upper(), ["AAPL", "MSFT"])
PeersOf(T) == IF T \in DOMAIN SECTOR_PEERS THEN SECTOR_PEERS[T] ELSE <<"AAPL", "MSFT">>

\* the list left in completion order
RequestedFirst_unsorted(list, T) == list

\* line 266: sort(key = (ticker == requested), reverse=True), stable
RequestedFirst(list, T) ==
    SelectSeq(list, LAMBDA x : x.ticker = T) \o SelectSeq(list, LAMBDA x : x.ticker # T)

Ok200(body) == [status |-> 200, body |-> body]
ServerError == [status |-> 500, body |-> <<>>]

\* lines 257-269.  answer is what the providers give every ticker asked for,
\* order the completion order of the futures.  A handler that returns is
\* answered with status 200 and the returned list as the body; the only
\* other outcome is an exception leaving the handler (status 500).
get_signals(ticker, single, answer, bills, order) ==
    LET T == Upper(ticker)
        one == analyze_stock(T, answer.market, answer.insider, bills)
        fallback == IF one.exc THEN ServerError ELSE Ok200(<<one.ret>>)
        all_tickers == <<T>> \o Take(PeersOf(T), 5)
        outcome == [x \in Range(all_tickers) |->
                       analyze_stock(x, answer.market, answer.insider, bills)]
    IN  IF single THEN fallback
        ELSE IF \E x \in Range(all_tickers) : outcome[x].exc THEN fallback
        ELSE Ok200(RequestedFirst(Collect(all_tickers, order, outcome), T))

SignalAnswers == {Up(10, 2000000), Down, NoQuote}

GetSignalsOf(tickers, answers) ==
    \E t \in tickers, single \in BOOLEAN, a \in answers :
        LET n == 1 + Len(Take(PeersOf(Upper(t)), 5))
        IN  \E p \in Permutations(1..n) :
                /\ analysis = NoCall
                /\ analysis' = [fn |-> "get_signals", ticker |-> t, single |-> single,
                                out |-> get_signals(t, single, a, ACTIVE_BILLS_CACHE,
                                                    [i \in 1..n |-> p[i]])]
                /\ UNCHANGED <<scannerVars, ACTIVE_BILLS_CACHE, ledger>>

GetSignals == GetSignalsOf(SignalTickers, SignalAnswers)

\* C7: GET /api/signals with a malformed symbol is answered with a client
\* error (status 4xx) and no result records.
C7_MalformedTickerIsClientError ==
    (analysis.fn = "get_signals" /\ analysis.ticker \in MalformedTickers) =>
        /\ analysis.out.status \in 400..499
        /\ analysis.out.body = <<>>

---------------------------------------------------------------------------
(* Properties of the rating (SpecAnalyze)                                  *)

\* the rating the thresholds 75, 60 and 45 give a score
RatingByThresholds(score, rating) ==
    /\ rating = "STRONG BUY" <=> score >= 75
    /\ rating = "BUY" <=> (60 <= score /\ score < 75)
    /\ rating = "SELL" <=> score <= 45
    /\ rating = "HOLD" <=> (45 < score /\ score < 60)

\* C11: the rating of a result returned by analyze_stock is a function of
\* its final score alone: STRONG BUY iff score >= 75, BUY iff
\* 60 <= score < 75, SELL iff score <= 45, HOLD iff 45 < score < 60; and
\* lines 150-153 give every score from 0 to 99 the rating of these thresholds.
C11_RatingFromScore ==
    /\ \A score \in 0..99 : RatingByThresholds(score, Rate(score).rating)
    /\ analysis.fn = "v34" =>
          RatingByThresholds(analysis.out.ret.legislation_score,
                             analysis.out.ret.final_score)

\* a call returned BUY for a score between the BUY and STRONG BUY thresholds
C11_Witness ==
    /\ analysis.fn = "v34"
    /\ analysis.out.ret.final_score = "BUY"
    /\ analysis.out.ret.legislation_score >= 60
    /\ analysis.out.ret.legislation_score < 75

---------------------------------------------------------------------------
(* The rating of one raw score under two ceilings                          *)

MaxRawScore == 125
MaxCeiling == 100

RawScores == 0..MaxRawScore
Ceilings == 40..MaxCeiling

\* lines 149-153 applied to a raw score under the ceilings low <= high
RateUnderCeilings ==
    /\ analysis = NoCall
    /\ \E raw \in RawScores, low \in Ceilings, high \in Ceilings :
        /\ low <= high
        /\ analysis' = [fn |-> "rate", raw |-> raw, low |-> low, high |-> high,
                        at_low |-> Rate(ClampAt(raw, low)).rating,
                        at_high |-> Rate(ClampAt(raw, high)).rating]
    /\ UNCHANGED <<scannerVars, ACTIVE_BILLS_CACHE, ledger>>

NextRating == RateUnderCeilings \/ Return

SpecRating == InitScan /\ [][NextRating]_vars

\* SELL < HOLD < BUY < STRONG BUY
RatingRank(rating) ==
    CASE rating = "SELL" -> 0
      [] rating = "HOLD" -> 1
      [] rating = "BUY" -> 2
      [] rating = "STRONG BUY" -> 3

\* C12: for a fixed raw score, the rating under the higher of two ceilings
\* is never lower than the rating under the lower one (SELL < HOLD < BUY <
\* STRONG BUY); the ceiling 99 is the clamp of line 149.
C12_RatingMonotonicInCeiling ==
    /\ \A raw \in RawScores : ClampAt(raw, 99) = Clamp(raw)
    /\ analysis.fn = "rate" =>
          RatingRank(analysis.at_low) <= RatingRank(analysis.at_high)

\* a raw score the lower ceiling cuts to BUY and the higher leaves STRONG BUY
C12_Witness ==
    /\ analysis.fn = "rate"
    /\ analysis.raw > analysis.low
    /\ analysis.low < analysis.high
    /\ analysis.at_low = "BUY"
    /\ analysis.at_high = "STRONG BUY"

---------------------------------------------------------------------------
(* More properties of the refresh loop (SpecScan)                          *)

TickersOf(list) == {list[i].ticker : i \in DOMAIN list}

\* C13: after a completed cycle, a universe symbol whose market-data fetch
\* failed in that cycle appears in none of the buys, cheap and sells views.
C13_FailedSymbolInNoView ==
    (pc = "sleep" /\ published >= 1) =>
        \A t \in DOMAIN feed :
            feed[t].market.raises # "no" =>
                \A v \in Views : t \notin TickersOf(SERVER_CACHE[v])

---------------------------------------------------------------------------
(* GET /api/signals of the v22 snapshot (src/unnamed/part_000, 186-392)    *)

\* part_000 lines 216-230
SECTOR_PEERS_v22 ==
    "NVDA" :> <<"AMD", "INTC", "AVGO", "QCOM", "TSM">> @@
    "AMD" :> <<"NVDA", "INTC", "AVGO", "QCOM", "TSM">> @@
    "F" :> <<"GM", "TM", "HMC", "TSLA", "RIVN">> @@
    "TSLA" :> <<"RIVN", "LCID", "F", "GM", "TM">> @@
    "VERO" :> <<"PODD", "DXCM", "MDT", "EW", "BSX">> @@
    "PODD" :> <<"VERO", "DXCM", "MDT", "EW", "BSX">> @@
    "SOFI" :> <<"LC", "UPST", "COIN", "HOOD", "PYPL">> @@
    "COIN" :> <<"HOOD", "MARA", "RIOT", "MSTR", "SQ">> @@
    "PFE" :> <<"MRK", "BMY", "LLY", "JNJ", "ABBV">> @@
    "IBRX" :> <<"MRNA", "NVAX", "BNTX", "GILD", "REGN">> @@
    "AAL" :> <<"DAL", "UAL", "LUV", "SAVE", "JBLU">> @@
    "AAPL" :> <<"MSFT", "GOOGL", "AMZN", "META", "NFLX">> @@
    "XOM" :> <<"CVX", "SHEL", "BP", "TTE", "COP">>

\* part_000 lines 243-255
get_legislative_intel_v22(ticker) ==
    LET t == Upper(ticker)
    IN  IF t \in {"LMT", "RTX"}
            THEN [bill_id |-> "H.R. 8070", impact_score |-> 95,
                  market_impact |-> "Direct Beneficiary: Defense spending increase."]
        ELSE IF t \in {"NVDA", "AMD", "MSFT"}
            THEN [bill_id |-> "S. 2714", impact_score |-> 88,
                  market_impact |-> "Bullish: AI Infrastructure standards."]
        ELSE IF t \in {"KMI", "AA", "XOM"}
            THEN [bill_id |-> "H.R. 1", impact_score |-> 85,
                  market_impact |-> "Bullish: Energy infrastructure permits."]
        ELSE IF t \in {"SOFI", "COIN"}
            THEN [bill_id |-> "H.R. 4763", impact_score |-> 85,
                  market_impact |-> "Bullish: Crypto/Fintech regulatory clarity."]
        ELSE IF t \in {"F", "GM"}
            THEN [bill_id |-> "H.R. 4468", impact_score |-> 82,
                  market_impact |-> "Bullish: Slowing EV mandates helps margins."]
        ELSE IF t \in {"VERO", "PODD", "DXCM", "IBRX", "MRNA"}
            THEN [bill_id |-> "H.R. 5525", impact_score |-> 65,
                  market_impact |-> "Neutral/Bullish: Healthcare funding renewal."]
        ELSE IF t \in {"PLTR", "AI"}
            THEN [bill_id |-> "S. 2714", impact_score |-> 40,
                  market_impact |-> "Bearish: Compliance costs for AI software."]
        ELSE IF t \in {"LCID", "RIVN"}
            THEN [bill_id |-> "H.R. 4468", impact_score |-> 30,
                  market_impact |-> "Bearish: Removal of EV-only subsidies."]
        ELSE [bill_id |-> "H.R. 5525", impact_score |-> 50,
              market_impact |-> "Neutral: General market monitoring."]

\* Python truth value of a fetched number
Truthy(x) == x.tag = "obj" \/ (x.tag = "num" /\ x.v # 0)

\* part_000 lines 259-271: [price, price_str, vol_str, fin_str]; the bare
\* except covers the fetch, the formatting and the comparisons
MarketData_v22(market, eps) ==
    LET failed == [price |-> 0, price_str |-> "N/A", vol_str |-> "N/A", fin_str |-> "N/A"]
        price == market.last_price
        vol == market.last_volume
    IN  IF market.raises # "no" THEN failed
        ELSE IF Truthy(price) /\ price.tag # "num" THEN failed
        ELSE IF Truthy(vol) /\ CompareRaises(vol) THEN failed
        ELSE IF CompareRaises(eps) THEN failed
        ELSE [price |-> IF Truthy(price) THEN price.v ELSE 0,
              price_str |-> IF Truthy(price) THEN "$" \o ToString(price.v) \o ".00"
                            ELSE "$0.00",
              vol_str |-> IF Truthy(vol) /\ vol.v > 1000000 THEN "High (Buying)"
                          ELSE "Neutral",
              fin_str |-> IF eps.v > 0 THEN "Profitable" ELSE "Unprofitable"]

\* part_000 lines 276-292
InsiderText_v22(market, insider) ==
    IF market.raises # "ticker" /\ insider.kind = "rows" /\ insider.recent
    THEN "Smith (" \o (IF insider.sold THEN "Sold" ELSE "Bought") \o ") Jan 02"
    ELSE "Monitoring..."

\* part_000 lines 258-317.  No statement outside a try can raise.
analyze_stock_v22(ticker, market, insider, eps) ==
    LET md == MarketData_v22(market, eps)
        leg == get_legislative_intel_v22(ticker)
        score == leg.impact_score + (IF md.vol_str = "High (Buying)" THEN 5 ELSE 0)
        r == Rate(score)
    IN  [exc |-> FALSE,
         ret |-> [ticker |-> ticker, raw_price |-> md.price, price |-> md.price_str,
                  volume_signal |-> md.vol_str, financial_health |-> md.fin_str,
                  legislation_score |-> score, timing_signal |-> r.timing,
                  sentiment |-> IF r.rating \in {"STRONG BUY", "BUY"} THEN "Bullish"
                                ELSE "Bearish",
                  final_score |-> r.rating,
                  corporate_activity |-> InsiderText_v22(market, insider),
                  congress_activity |-> "No Recent Activity",
                  bill_id |-> leg.bill_id, bill_name |-> "Appropriations",
                  market_impact |-> leg.market_impact]]

\* part_000 line 373
PeersOf_v22(T) ==
    IF T \in DOMAIN SECTOR_PEERS_v22 THEN SECTOR_PEERS_v22[T]
    ELSE <<"AAPL", "MSFT", "GOOGL", "AMZN", "TSLA">>

\* part_000 lines 364-387: a result whose future raised is skipped
get_signals_v22(ticker, single, answer, eps, order) ==
    LET t == Upper(ticker)
        all_tickers == <<t>> \o Take(PeersOf_v22(t), 5)
        outcome == [x \in Range(all_tickers) |->
                       analyze_stock_v22(x, answer.market, answer.insider, eps)]
    IN  IF single THEN Ok200(<<outcome[t].ret>>)
        ELSE Ok200(RequestedFirst(Collect(all_tickers, order, outcome), t))

\* stock.info.get('trailingEps', 0)
EpsAnswers == {None, Num(0), Num(3)}

GetSignals_v22 ==
    /\ analysis = NoCall
    /\ \E t \in SignalTickers, single \in BOOLEAN, a \in SignalAnswers, eps \in EpsAnswers :
        LET n == 1 + Len(Take(PeersOf_v22(Upper(t)), 5))
        IN  \E p \in Permutations(1..n) :
                analysis' = [fn |-> "get_signals_v22", ticker |-> t, single |-> single,
                             out |-> get_signals_v22(t, single, a, eps,
                                                     [i \in 1..n |-> p[i]])]
    /\ UNCHANGED <<scannerVars, ACTIVE_BILLS_CACHE, ledger>>

---------------------------------------------------------------------------
(* On-demand signals: both snapshots of get_signals                        *)

NextSignals == GetSignals \/ GetSignals_v22 \/ Return

SpecSignals == InitAnalyze /\ [][NextSignals]_vars

\* C14: in peers mode get_signals answers with a list whose first element is
\* the result for the upper-cased requested ticker, whatever the completion
\* order of the analyses.
C14_RequestedTickerFirst ==
    (analysis.fn \in {"get_signals", "get_signals_v22"} /\ ~analysis.single) =>
        /\ analysis.out.status = 200
        /\ analysis.out.body # <<>>
        /\ analysis.out.body[1].ticker = Upper(analysis.ticker)

\* the request named nvda; the last peer submitted completed before the
\* others and NVDA is still first
C14_Witness ==
    /\ analysis.fn = "get_signals"
    /\ ~analysis.single
    /\ analysis.ticker = "nvda"
    /\ Len(analysis.out.body) = 5
    /\ analysis.out.body[1].ticker = "NVDA"
    /\ analysis.out.body[2].ticker = "QCOM"

---------------------------------------------------------------------------
(* The paper-trading ledger (main.py:44-58, 214-251).  ledger is the       *)
(* content of DB_FILE: cash, the holdings in insertion order (a Python     *)
(* dict written as JSON) and the trade history.  Prices are whole dollars; *)
(* a float division is the integer division of the same operands.          *)

Dollars(n) == "$" \o ToString(n) \o ".00"

Holds(holdings, t) == \E i \in DOMAIN holdings : holdings[i].ticker = t

HoldingIndex(holdings, t) == CHOOSE i \in DOMAIN holdings : holdings[i].ticker = t

\* del db["holdings"][ticker]
DropHolding(holdings, t) == SelectSeq(holdings, LAMBDA h : h.ticker # t)

Rejected(detail) == [status |-> 400, detail |-> detail]

Crashed == [status |-> 500, detail |-> "Internal Server Error"]

\* line 249, the history entry
HistoryEntry(ticker, action, qty, price) ==
    [ticker |-> ticker, action |-> action, qty |-> qty, price |-> Dollars(price),
     date |-> "now"]

\* lines 238-243: [ok, db]; ok is FALSE when the division of line 242 is by 0
Buy(db, ticker, qty, price) ==
    LET cost == price * qty
        h == db.holdings
    IN  IF Holds(h, ticker)
        THEN LET i == HoldingIndex(h, ticker)
                 old == h[i]
             IN  IF old.qty + qty = 0 THEN [ok |-> FALSE, db |-> db]
                 ELSE [ok |-> TRUE,
                       db |-> [db EXCEPT !.cash = @ - cost,
                                  !.holdings[i] =
                                      [ticker |-> ticker, qty |-> old.qty + qty,
                                       avg_price |-> ((old.qty * old.avg_price) + cost)
                                                         \div (old.qty + qty)]]]
        ELSE [ok |-> TRUE,
              db |-> [db EXCEPT !.cash = @ - cost,
                         !.holdings = Append(@, [ticker |-> ticker, qty |-> qty,
                                                 avg_price |-> price])]]

\* lines 246-248
Sell(db, ticker, qty, price) ==
    LET i == HoldingIndex(db.holdings, ticker)
        left == db.holdings[i].qty - qty
    IN  [db EXCEPT !.cash = @ + (price * qty),
            !.holdings = IF left = 0 THEN DropHolding(@, ticker)
                         ELSE [@ EXCEPT ![i].qty = left]]

\* lines 229-251: [out, db]: the answer, and the ledger DB_FILE holds after
\* the call (save_db runs only on the path that returns)
execute_trade(db, trade, quote) ==
    LET ticker == Upper(trade.ticker)
        qty == trade.quantity
        price == quote.last_price
        executed(new) ==
            LET saved == [new EXCEPT !.history =
                             Append(@, HistoryEntry(ticker, trade.action, qty, price.v))]
            IN  [out |-> [status |-> 200, message |-> "Trade Executed",
                          new_cash |-> saved.cash],
                 db |-> saved]
    IN  IF quote.raises # "no" THEN [out |-> Rejected("Stock not found"), db |-> db]
        ELSE IF ~Truthy(price) THEN [out |-> Rejected("Price unavailable"), db |-> db]
        ELSE IF price.tag # "num" THEN [out |-> Crashed, db |-> db]
        ELSE IF trade.action = "BUY"
            THEN IF db.cash < price.v * qty
                     THEN [out |-> Rejected("Insufficient Funds"), db |-> db]
                 ELSE LET b == Buy(db, ticker, qty, price.v)
                      IN  IF b.ok THEN executed(b.db) ELSE [out |-> Crashed, db |-> db]
        ELSE IF trade.action = "SELL"
            THEN IF ~Holds(db.holdings, ticker)
                    \/ db.holdings[HoldingIndex(db.holdings, ticker)].qty < qty
                     THEN [out |-> Rejected("Insufficient Shares"), db |-> db]
                 ELSE executed(Sell(db, ticker, qty, price.v))
        ELSE executed(db)

\* lines 219-225: `last_price or avg`, avg when the fetch raises
CurrentPrice(quote, avg) ==
    IF quote.raises # "no" THEN avg
    ELSE IF Truthy(quote.last_price) THEN quote.last_price.v ELSE avg

\* lines 218-225, one row of holdings_view
HoldingView(h, cur) ==
    LET val == h.qty * cur
        cost == h.qty * h.avg_price
    IN  [ticker |-> h.ticker, qty |-> h.qty, avg_price |-> Dollars(h.avg_price),
         current_price |-> Dollars(cur), market_value |-> Dollars(val),
         pl |-> Dollars(val - cost),
         pl_percent |-> ToString(((val - cost) * 100) \div cost) \o ".0%"]

RECURSIVE MarketValue(_, _)
MarketValue(holdings, quote) ==
    IF holdings = <<>> THEN 0
    ELSE LET h == Head(holdings)
         IN  (h.qty * CurrentPrice(quote, h.avg_price)) + MarketValue(Tail(holdings), quote)

\* lines 214-227.  The division of line 225 is by qty * avg: a holding with
\* quantity 0 makes the handler raise.
get_portfolio(db, quote) ==
    IF quote.raises = "no" /\ quote.last_price.tag = "obj" /\ db.holdings # <<>>
        THEN Crashed
    ELSE IF \E i \in DOMAIN db.holdings : db.holdings[i].qty * db.holdings[i].avg_price = 0
        THEN Crashed
    ELSE LET total_equity == db.cash + MarketValue(db.holdings, quote)
         IN  [status |-> 200,
              cash |-> Dollars(db.cash), equity |-> Dollars(total_equity),
              total_return |-> ToString(((total_equity - 100000) * 100) \div 100000)
                                   \o ".00%",
              holdings |-> [i \in DOMAIN db.holdings |->
                               HoldingView(db.holdings[i],
                                           CurrentPrice(quote, db.holdings[i].avg_price))],
              history |-> db.history]

---------------------------------------------------------------------------
(* The HTTP handlers beside the refresh loop, one call at a time           *)

MaxTrades == 2

\* TradeRequest (lines 60-63) bodies and the quotes of line 232
TradeRequests == [ticker : {"nvda"}, action : {"BUY", "SELL", "HOLD"}, quantity : {1, 3}]

TradeQuotes ==
    {[raises |-> "ticker", last_price |-> None, last_volume |-> None]}
    \cup [raises : {"no"}, last_price : {None, Num(10), Num(60000)}, last_volume : {None}]

\* POST /api/trade
ExecuteTrade ==
    /\ analysis = NoCall
    /\ Len(ledger.history) < MaxTrades
    /\ \E trade \in TradeRequests, quote \in TradeQuotes :
          LET r == execute_trade(ledger, trade, quote)
          IN  /\ analysis' = [fn |-> "execute_trade", trade |-> trade, out |-> r.out]
              /\ ledger' = r.db
    /\ UNCHANGED <<scannerVars, ACTIVE_BILLS_CACHE>>

\* a portfolio handler that also clears the scanner cache
GetPortfolio_clearing_cache ==
    /\ analysis = NoCall
    /\ \E quote \in TradeQuotes :
          analysis' = [fn |-> "get_portfolio", out |-> get_portfolio(ledger, quote)]
    /\ SERVER_CACHE' = EmptyCache
    /\ UNCHANGED <<ACTIVE_BILLS_CACHE, pc, results, cheap, feed, cycle, published, origin,
                   requests, ledger>>

\* GET /api/portfolio
GetPortfolio ==
    /\ analysis = NoCall
    /\ \E quote \in TradeQuotes :
          analysis' = [fn |-> "get_portfolio", out |-> get_portfolio(ledger, quote)]
    /\ UNCHANGED <<scannerVars, ACTIVE_BILLS_CACHE, ledger>>

\* GET /api/scanner, the handler's body run at any point of the loop
ReadScanner ==
    /\ analysis = NoCall
    /\ \E mode \in Modes :
          analysis' = [fn |-> "get_scanner_data", mode |-> mode,
                       out |-> get_scanner_data(SERVER_CACHE, mode)]
    /\ UNCHANGED <<scannerVars, ACTIVE_BILLS_CACHE, ledger>>

\* GET /api/signals for a ticker without peers, while the providers are down
SignalsDuringOutage == GetSignalsOf({"ZZZZ"}, {Down})

NextHandlers ==
    \/ BeginCycle(CongressRefuses, MaxCycles)
    \/ ScanUniverse(Universe, Feeds)
    \/ PublishBuys
    \/ PublishCheap
    \/ PublishSells
    \/ PublishTime
    \/ ExecuteTrade
    \/ GetPortfolio
    \/ ReadScanner
    \/ SignalsDuringOutage
    \/ Return

SpecHandlers == Init /\ [][NextHandlers]_vars


\* C15: SERVER_CACHE has one writer: a step that changes any of its views
\* or last_updated is a publish step of update_market_scanner, and no step
\* of a handler (get_scanner_data, get_signals and the analyze_stock calls
\* it makes, execute_trade, get_portfolio) changes it.
C15_OnlyRefreshWritesCache ==
    [][SERVER_CACHE' # SERVER_CACHE =>
          /\ pc \in PublishSteps
          /\ pc' # pc
          /\ analysis' = analysis
          /\ ledger' = ledger]_vars

\* the loop has published, a trade has been executed and saved, and a
\* portfolio request has just been answered: the cache still holds the
\* views of the last publish
C15_Witness ==
    /\ published >= 1
    /\ pc = "sleep"
    /\ ledger.history # <<>>
    /\ analysis.fn = "get_portfolio"
    /\ analysis.out.status = 200
    /\ SERVER_CACHE.buys = Take(SortDesc(results), TopN)
    /\ SERVER_CACHE.buys # <<>>

---------------------------------------------------------------------------
(* The refresh loop as a running task.  The event loop resumes the task    *)
(* when the timer of asyncio.sleep fires, requests.get has a timeout, and  *)
(* the loop body has no other wait than the pool's calls, which are taken  *)
(* to return: whenever the task can take its next step it takes it.        *)

NextLoop ==
    \/ BeginCycle(ScanCongress, MaxCycles)
    \/ ScanUniverse(Universe, Feeds)
    \/ PublishBuys
    \/ PublishCheap
    \/ PublishSells
    \/ PublishTime

SpecLoop == Init /\ [][NextLoop]_vars /\ WF_vars(NextLoop)

LoopStates == {"start", "scan", "sleep"} \cup PublishSteps

---------------------------------------------------------------------------
(* The thread pool of a refresh cycle, future by future (main.py:184-188). *)
(* analyze_stock passes no timeout to yfinance and neither as_completed    *)
(* nor the executor's shutdown has one, so a call whose upstream does not  *)
(* answer does not return.  pc is "collect" while the loop waits in        *)
(* as_completed; results grows as the futures complete.                    *)

\* the upstream accepts the request and never answers
Unresponsive ==
    [market |-> [raises |-> "hang", last_price |-> None, last_volume |-> None],
     insider |-> [kind |-> "raise", recent |-> FALSE, sold |-> FALSE]]

\* one symbol unresponsive, the others quoted
FeedStuck(universe) ==
    [t \in Range(universe) |->
        IF t = universe[1] THEN Unresponsive ELSE FeedOpen(universe)[t]]

PoolFeeds == Feeds \cup {FeedStuck(Universe)}

Returns(f, t) == f[t].market.raises # "hang"

\* line 185: every symbol of the universe is submitted to the pool
SubmitAll(universe, feeds) ==
    /\ pc = "scan"
    /\ feed' \in feeds
    /\ results' = <<>>
    /\ pc' = "collect"
    /\ UNCHANGED <<SERVER_CACHE, ACTIVE_BILLS_CACHE, cheap, cycle, published, origin,
                   requests, analysis, ledger>>

\* lines 186-188: a call returns and as_completed yields its future
FutureCompletes(universe, i) ==
    /\ pc = "collect"
    /\ universe[i] \notin TickersOf(results)
    /\ Returns(feed, universe[i])
    /\ LET t == universe[i]
           r == analyze_stock(t, feed[t].market, feed[t].insider, ACTIVE_BILLS_CACHE)
       IN  results' = IF r.exc THEN results ELSE Append(results, r.ret)
    /\ UNCHANGED <<SERVER_CACHE, ACTIVE_BILLS_CACHE, pc, cheap, feed, cycle, published,
                   origin, requests, analysis, ledger>>

\* the loop leaves the pool as soon as one future is done
PoolDone_early(universe) ==
    /\ pc = "collect"
    /\ results # <<>>
    /\ pc' = "publish_buys"
    /\ UNCHANGED <<SERVER_CACHE, ACTIVE_BILLS_CACHE, results, cheap, feed, cycle, published,
                   origin, requests, analysis, ledger>>

\* as_completed is exhausted and the `with` block is left: every future is done
PoolDone(universe) ==
    /\ pc = "collect"
    /\ Range(universe) \subseteq TickersOf(results)
    /\ pc' = "publish_buys"
    /\ UNCHANGED <<SERVER_CACHE, ACTIVE_BILLS_CACHE, results, cheap, feed, cycle, published,
                   origin, requests, analysis, ledger>>

NextPool ==
    \/ BeginCycle(CongressRefuses, MaxCycles)
    \/ SubmitAll(Universe, PoolFeeds)
    \/ \E i \in DOMAIN Universe : FutureCompletes(Universe, i)
    \/ PoolDone(Universe)
    \/ PublishBuys
    \/ PublishCheap
    \/ PublishSells
    \/ PublishTime

SpecPool == Init /\ [][NextPool]_vars /\ WF_vars(NextPool)

\* C17: every refresh cycle terminates: a cycle that has dispatched its
\* analyses reaches its publish and then its sleep, whatever the fetches
\* answer: no single symbol stalls it.
C17_EveryCycleTerminates ==
    \A k \in 1..MaxCycles :
        (cycle = k /\ pc = "collect") ~> (pc = "sleep" /\ published = k)

---------------------------------------------------------------------------
(* Properties of the collected results (SpecScan)                          *)

OncePerSymbol(list) ==
    \A i, j \in DOMAIN list : i # j => list[i].ticker # list[j].ticker

\* C18: MARKET_UNIVERSE names no symbol twice, so in every state the result
\* list of the cycle holds at most one result per universe symbol, and each
\* of the buys, cheap and sells views holds each symbol at most once.
C18_OneResultPerSymbol ==
    /\ pc = "start" =>
          \A i, j \in DOMAIN MARKET_UNIVERSE :
              i # j => MARKET_UNIVERSE[i] # MARKET_UNIVERSE[j]
    /\ OncePerSymbol(results)
    /\ TickersOf(results) \subseteq Range(ScanUniverseList)
    /\ \A v \in Views : OncePerSymbol(SERVER_CACHE[v])

\* a completed cycle collected one result for every symbol of the universe
\* and published full views
C18_Witness ==
    /\ pc = "sleep"
    /\ Len(results) = Len(ScanUniverseList)
    /\ TickersOf(results) = Range(ScanUniverseList)
    /\ Len(SERVER_CACHE.buys) = TopN
    /\ Len(SERVER_CACHE.sells) = TopN
    /\ SERVER_CACHE.cheap # <<>>

---------------------------------------------------------------------------
(* Properties of the pool (SpecPool)                                       *)

AllFinished == Range(Universe) \subseteq TickersOf(results)

\* C19: within a cycle no step writes SERVER_CACHE before the analysis of
\* every symbol dispatched in the cycle has finished; while the loop waits
\* for the pool the cache is left alone.
C19_NoPublishBeforeAllFinished ==
    [][/\ SERVER_CACHE' # SERVER_CACHE => (AllFinished /\ pc \in PublishSteps)
       /\ pc = "collect" => SERVER_CACHE' = SERVER_CACHE]_vars

\* the second cycle has written its buys with every analysis finished
C19_Witness ==
    /\ cycle = 2
    /\ pc = "publish_cheap"
    /\ origin["buys"] = 2
    /\ AllFinished
    /\ Len(results) = Len(Universe)

---------------------------------------------------------------------------
(* The views and the completion order (SpecScan)                           *)

\* the results of the cycle's feed in submission order
InSubmissionOrder ==
    [i \in DOMAIN ScanUniverseList |->
        LET t == ScanUniverseList[i]
        IN  analyze_stock(t, feed[t].market, feed[t].insider, ACTIVE_BILLS_CACHE).ret]

\* C20: for the per-symbol results of a cycle, the published buys, cheap
\* and sells views are the same for every completion order of the
\* analyses: they are the views the sorts give the results taken in
\* submission order.
C20_ViewsIndependentOfCompletionOrder ==
    (pc = "sleep" /\ published >= 1) =>
        LET byScore == SortDesc(InSubmissionOrder)
        IN  /\ SERVER_CACHE.buys = Take(byScore, TopN)
            /\ SERVER_CACHE.cheap = Take(SortDesc(SelectSeq(byScore, IsCheap)), TopN)
            /\ SERVER_CACHE.sells = Take(SortAsc(byScore), TopN)

---------------------------------------------------------------------------
(* The buys view (SpecScan)                                                *)

MinOf(a, b) == IF a < b THEN a ELSE b

\* C21: once a cycle has written buys, and until the next cycle starts,
\* buys holds the min(5, number of results) highest-scoring results of the
\* cycle in non-increasing score order: no result left out of buys scores
\* higher than an entry of buys.
C21_BuysAreTopScores ==
    (cycle >= 1 /\ origin["buys"] = cycle /\ pc \in PublishSteps \cup {"sleep"}) =>
        /\ Len(SERVER_CACHE.buys) = MinOf(TopN, Len(results))
        /\ IsDescending(SERVER_CACHE.buys)
        /\ Range(SERVER_CACHE.buys) \subseteq Range(results)
        /\ \A r \in Range(results) \ Range(SERVER_CACHE.buys) :
              \A i \in DOMAIN SERVER_CACHE.buys :
                  r.legislation_score <= SERVER_CACHE.buys[i].legislation_score

\* a completed cycle with more results than buys holds: a result scoring
\* strictly less than the last entry of buys was left out
C21_Witness ==
    /\ pc = "sleep"
    /\ published >= 1
    /\ Len(results) > TopN
    /\ Len(SERVER_CACHE.buys) = TopN
    /\ SERVER_CACHE.buys[1].legislation_score > SERVER_CACHE.buys[TopN].legislation_score
    /\ \E r \in Range(results) \ Range(SERVER_CACHE.buys) :
          r.legislation_score < SERVER_CACHE.buys[TopN].legislation_score

---------------------------------------------------------------------------
(* The bill cache under any congress.gov answer (SpecBills)                *)

\* a response bill whose type and number spell the bill_id of a static bill
SameIdBill == [type |-> "H.R.", number |-> "8070", title |-> "DEFENSE AUTH ACT",
               words |-> {"DEFENSE"}]

\* every kind of answer of CongressAnswers, an answer whose bill takes the id
\* of a static bill, and an exception after some bills were already cleaned
BillAnswers ==
    CongressAnswers \cup
    {[kind |-> "ok", bills |-> <<SameIdBill, NamingBill>>],
     [kind |-> "raise", bills |-> <<TechBill>>]}

NextBills ==
    \/ BeginCycle(BillAnswers, MaxCycles)
    \/ ScanUniverse(Universe, Feeds)
    \/ PublishBuys
    \/ PublishCheap
    \/ PublishSells
    \/ PublishTime

SpecBills == Init /\ [][NextBills]_vars

BillIds(bills) == {bills[i].bill_id : i \in DOMAIN bills}

\* C22: whatever congress.gov answers (bills, a non-200 status, an
\* exception), the list fetch_real_legislation returns has a bill for every
\* bill_id of STATIC_LEGISLATION, and so has ACTIVE_BILLS_CACHE in every
\* reachable state.
C22_StaticBillsAlwaysPresent ==
    /\ BillIds(STATIC_LEGISLATION) \subseteq BillIds(ACTIVE_BILLS_CACHE)
    /\ pc = "start" =>
          \A r \in BillAnswers :
              BillIds(STATIC_LEGISLATION) \subseteq BillIds(fetch_real_legislation(r))

\* a cycle has replaced the cache by a fetched list: it holds a cleaned bill
\* of congress.gov ahead of the static bills
C22_Witness ==
    /\ cycle >= 1
    /\ ACTIVE_BILLS_CACHE # STATIC_LEGISLATION
    /\ ACTIVE_BILLS_CACHE[1].bill_sponsor = "Congress"
    /\ Len(ACTIVE_BILLS_CACHE) > Len(STATIC_LEGISLATION)

---------------------------------------------------------------------------
(* The golden fallback data (SpecAnalyze)                                  *)

\* the fields of a result that hold text
TextFields == ResultFields \ {"raw_price", "legislation_score"}

\* the tickers STATIC_TRADES has a fallback entry for (main.py:29-36)
GoldenTickers == DOMAIN STATIC_TRADES

\* C23: for a ticker covered by the golden fallback data (NVDA, MSFT, ...)
\* no field of the result of analyze_stock shows "N/A", whatever the
\* market-data and insider fetches did, failed ones included.
C23_GoldenTickersNeverNA ==
    (analysis.fn = "v34" /\ analysis.ticker \in GoldenTickers) =>
        \A f \in TextFields : analysis.out.ret[f] # "N/A"

---------------------------------------------------------------------------
(* POST /api/trade alone, one request at a time, with every integer        *)
(* quantity TradeRequest (main.py:60-63) admits: `quantity: int` has no    *)
(* lower bound, and `action: str` is any string (SpecTrades)               *)

TradeOrders ==
    [ticker : {"nvda"}, action : {"BUY", "SELL", "HOLD"}, quantity : {0 - 3, 0, 1, 3}]

\* a handler that writes the history entry before it validates the request
PlaceTrade_logging_rejected ==
    /\ analysis = NoCall
    /\ Len(ledger.history) < MaxTrades
    /\ \E trade \in TradeOrders, quote \in TradeQuotes :
          LET r == execute_trade(ledger, trade, quote)
          IN  /\ analysis' = [fn |-> "execute_trade", trade |-> trade, out |-> r.out]
              /\ ledger' = IF r.out.status = 400
                              THEN [ledger EXCEPT !.history =
                                       Append(@, HistoryEntry(Upper(trade.ticker),
                                                              trade.action, trade.quantity, 0))]
                              ELSE r.db
    /\ UNCHANGED <<scannerVars, ACTIVE_BILLS_CACHE>>

\* POST /api/trade: load_db, the checks, save_db on the path that returns
PlaceTrade ==
    /\ analysis = NoCall
    /\ Len(ledger.history) < MaxTrades
    /\ \E trade \in TradeOrders, quote \in TradeQuotes :
          LET r == execute_trade(ledger, trade, quote)
          IN  /\ analysis' = [fn |-> "execute_trade", trade |-> trade, out |-> r.out]
              /\ ledger' = r.db
    /\ UNCHANGED <<scannerVars, ACTIVE_BILLS_CACHE>>

NextTrades == PlaceTrade \/ Return

SpecTrades == Init /\ [][NextTrades]_vars

\* C24: after any sequence of /api/trade requests (any action string, any
\* integer quantity) from the default ledger, the cash is never negative.
C24_CashNeverNegative == ledger.cash >= 0

\* C25: every ticker present in the holdings has a strictly positive
\* quantity: a position sold to zero is removed, and no trade creates a zero
\* or negative position.
C25_HoldingsPositive ==
    \A i \in DOMAIN ledger.holdings : ledger.holdings[i].qty > 0

RejectionDetails ==
    {"Stock not found", "Price unavailable", "Insufficient Funds", "Insufficient Shares"}

\* C26: a /api/trade request rejected with an error (Stock not found, Price
\* unavailable, Insufficient Funds, Insufficient Shares) leaves the persisted
\* ledger's cash, holdings and history unchanged.
C26_RejectedTradeChangesNothing ==
    [][(analysis'.fn = "execute_trade" /\ analysis'.out.status = 400) =>
          /\ analysis'.out.detail \in RejectionDetails
          /\ ledger'.cash = ledger.cash
          /\ ledger'.holdings = ledger.holdings
          /\ ledger'.history = ledger.history]_vars

\* a sale of more shares than the ledger holds has just been rejected, after
\* an earlier trade had been executed and saved
C26_Witness ==
    /\ analysis.fn = "execute_trade"
    /\ analysis.out.status = 400
    /\ analysis.out.detail = "Insufficient Shares"
    /\ analysis.trade.action = "SELL"
    /\ Len(ledger.history) = 1
    /\ ledger.holdings # <<>>
    /\ ledger.holdings[1].qty < analysis.trade.quantity

---------------------------------------------------------------------------
(* POST /api/trade on several worker threads (SpecRace).  execute_trade is *)
(* a plain `def`: FastAPI runs each request on a thread of its pool, and   *)
(* nothing serialises load_db (line 230) and save_db (line 250).  Between  *)
(* the two a thread waits for its quote (line 232) and works on the dict   *)
(* it loaded.  A trade request is [st, trade, db, quote, out]: st is       *)
(* "loaded" (load_db has returned db) or "done" (answered).                *)

\* line 230: a worker thread takes a request and reads DB_FILE
TradeLoad ==
    /\ Len(requests) < MaxRequests
    /\ \E trade \in TradeRequests :
          requests' = Append(requests,
                             [st |-> "loaded", trade |-> trade, db |-> ledger,
                              quote |-> None, out |-> NoCall])
    /\ UNCHANGED <<SERVER_CACHE, ACTIVE_BILLS_CACHE, pc, results, cheap, feed, cycle,
                   published, origin, analysis, ledger>>

\* lines 231-251: the quote arrives, the thread updates the dict it loaded
\* and, unless it raised, writes the whole dict to DB_FILE
TradeSave(i) ==
    /\ requests[i].st = "loaded"
    /\ \E quote \in TradeQuotes :
          LET r == execute_trade(requests[i].db, requests[i].trade, quote)
          IN  /\ requests' = [requests EXCEPT ![i].st = "done",
                                              ![i].quote = quote.last_price,
                                              ![i].out = r.out]
              /\ ledger' = IF r.out.status = 200 THEN r.db ELSE ledger
    /\ UNCHANGED <<SERVER_CACHE, ACTIVE_BILLS_CACHE, pc, results, cheap, feed, cycle,
                   published, origin, analysis>>

NextRace ==
    \/ TradeLoad
    \/ \E i \in DOMAIN requests : TradeSave(i)

SpecRace == Init /\ [][NextRace]_vars

Executed(req) == req.st = "done" /\ req.out.status = 200

\* what an executed trade takes from the cash: lines 238 and 246
CashTaken(req) ==
    IF req.trade.action = "BUY" THEN req.quote.v * req.trade.quantity
    ELSE IF req.trade.action = "SELL" THEN 0 - (req.quote.v * req.trade.quantity)
    ELSE 0

\* C27: when two /api/trade requests ran concurrently and both answered
\* "Trade Executed", the persisted ledger reflects both: its history has
\* both entries and its cash includes the effect of both trades.
C27_NoLostUpdate ==
    (/\ Len(requests) = 2
     /\ Executed(requests[1])
     /\ Executed(requests[2])) =>
        /\ Len(ledger.history) = 2
        /\ ledger.cash = DefaultLedger.cash - (CashTaken(requests[1]) + CashTaken(requests[2]))

---------------------------------------------------------------------------
(* The peers list of GET /api/signals (SpecSignals)                        *)

\* C28: in peers mode the list get_signals returns has each symbol at most
\* once, for every requested ticker, the tickers without a SECTOR_PEERS
\* entry (answered from the default peers AAPL and MSFT) included.
C28_PeersListHasNoDuplicates ==
    (analysis.fn = "get_signals" /\ ~analysis.single /\ analysis.out.status = 200) =>
        \A i, j \in DOMAIN analysis.out.body :
            i # j => analysis.out.body[i].ticker # analysis.out.body[j].ticker

====
